---- MODULE Spec2Model ----
(***************************************************************************)
(* Model of picoqinq/qinqproto.c: the header-compression registry (a       *)
(* singly linked list reached through a head pointer) and the codec of the *)
(* datagram header, reserve-header and reserve-cid messages.               *)
(***************************************************************************)
EXTENDS Integers, Sequences, FiniteSets, TLC

(* ------------------------------ bounds --------------------------------- *)
\* number of picoqinq_header_compression_t objects malloc can hand out
MaxNodes == 3

Nodes == 1..MaxNodes
\* the header compression codes the callers use
Codes == {0, 1, 2}

\* the C null pointer, as a node reference
NULL == 0

(* ------------------------------ values --------------------------------- *)
\* struct sockaddr_storage after memset(.., 0, ..): family 0, no address
ZeroAddr == [family |-> "AF_UNSPEC", addr |-> <<>>, port |-> 0]
\* 192.0.2.1 port 8080 (0x1F90)
Addr4 == [family |-> "AF_INET", addr |-> <<192, 0, 2, 1>>, port |-> 8080]
\* 2001:db8::1 port 443
Addr6 == [family |-> "AF_INET6",
          addr |-> <<32, 1, 13, 184, 0, 0, 0, 0, 0, 0, 0, 0, 0, 0, 0, 1>>,
          port |-> 443]

\* picoquic_connection_id_t: id_len bytes of id, as a sequence of bytes
Cid1 == <<1>>
Cid12 == <<1, 2>>
Cids == {Cid1, Cid12}
\* the (address, CID) pairs the callers create entries for and look up
Pairs == {<<Addr4, Cid1>>, <<Addr4, Cid12>>, <<ZeroAddr, Cid1>>}

\* picoquic_store_addr: copies an IPv4 or IPv6 address and returns its
\* length; for any other family the target is zeroed and 0 is returned
picoquic_store_addr(addr) ==
    IF addr.family = "AF_INET" THEN [stored |-> addr, len |-> 16]
    ELSE IF addr.family = "AF_INET6" THEN [stored |-> addr, len |-> 28]
    ELSE [stored |-> ZeroAddr, len |-> 0]

\* picoquic_compare_addr: 0 when family, address and port are the same
picoquic_compare_addr(expected, actual) ==
    IF expected.family = actual.family
       /\ expected.addr = actual.addr
       /\ expected.port = actual.port
    THEN 0 ELSE -1

(* ------------------------------ state ---------------------------------- *)
VARIABLES
    heap,      \* heap[n]: the fields of object n (hcid, addr_s, cid, next_hc)
    alloc,     \* alloc[n]: "unused", "live" (malloc'ed), "freed", "freed twice"
    head,      \* the caller's registry head pointer, *phc_head
    last,      \* the last call: its name, arguments and return value
    lastUse,   \* history: the objects ever linked, most recently used first
    reserved   \* history: per code, <<address, CID>> of the last reserve call

vars == <<heap, alloc, head, last, lastUse, reserved>>

\* contents of an object that is not allocated; a freed object is given
\* these contents, nothing may read it
NoNode == [hcid |-> 0, addr_s |-> ZeroAddr, cid |-> <<>>, next_hc |-> NULL]

NoCall == [op |-> "none"]

(* --------------------------- list walking ------------------------------ *)
\* the objects reached from p through next_hc, front to back; the walk
\* stops after MaxNodes + 1 objects, so a cyclic list gives a longer sequence
RECURSIVE Walk(_, _, _)
Walk(h, p, fuel) ==
    IF p = NULL \/ fuel = 0 THEN <<>>
    ELSE <<p>> \o Walk(h, h[p].next_hc, fuel - 1)

List(h, hd) == Walk(h, hd, MaxNodes + 1)

Registry == List(heap, head)

Range(s) == {s[i] : i \in 1..Len(s)}

\* the objects allocated and not linked in the registry
Detached == {n \in Nodes : alloc[n] = "live" /\ n \notin Range(Registry)}

(* ----------------------------- registry -------------------------------- *)
\* picoqinq_create_header: malloc, then fill the object
picoqinq_create_header(h, n, hcid, addr, cid) ==
    [h EXCEPT ![n] = [hcid |-> hcid,
                      addr_s |-> picoquic_store_addr(addr).stored,
                      cid |-> cid,
                      next_hc |-> NULL]]

\* free(p) on the allocation state of object p: a second free of the same
\* object is recorded as such
free(a) == IF a = "live" THEN "freed" ELSE "freed twice"

\* a scan that frees the entries of the code and leaves them linked
RECURSIVE reserve_scan_free_linked(_, _, _, _)
reserve_scan_free_linked(h, al, p, hcid) ==
    LET cur == h[p].next_hc IN
    IF cur = NULL THEN [heap |-> h, alloc |-> al]
    ELSE IF h[cur].hcid = hcid
         THEN reserve_scan_free_linked(h, [al EXCEPT ![cur] = free(al[cur])],
                                       cur, hcid)
         ELSE reserve_scan_free_linked(h, al, cur, hcid)

\* a reserve that links the entry and evicts nothing
reserve_scan_keep(h, al, p, hcid) == [heap |-> h, alloc |-> al]

\* a scan that evicts the entries of every other code
RECURSIVE reserve_scan_evict_others(_, _, _, _)
reserve_scan_evict_others(h, al, p, hcid) ==
    LET cur == h[p].next_hc IN
    IF cur = NULL THEN [heap |-> h, alloc |-> al]
    ELSE IF h[cur].hcid # hcid
         THEN reserve_scan_evict_others([h EXCEPT ![p].next_hc = h[cur].next_hc,
                                                  ![cur] = NoNode],
                                        [al EXCEPT ![cur] = "freed"], p, hcid)
         ELSE reserve_scan_evict_others(h, al, cur, hcid)

\* the while loop of picoqinq_reserve_header; phc_next is the address of the
\* next_hc field of object p
RECURSIVE reserve_scan(_, _, _, _)
reserve_scan(h, al, p, hcid) ==
    LET cur == h[p].next_hc IN
    IF cur = NULL THEN [heap |-> h, alloc |-> al]
    ELSE IF h[cur].hcid = hcid
         THEN reserve_scan([h EXCEPT ![p].next_hc = h[cur].next_hc,
                                     ![cur] = NoNode],
                           [al EXCEPT ![cur] = free(al[cur])], p, hcid)
         ELSE reserve_scan(h, al, cur, hcid)

picoqinq_reserve_header(h, al, hd, hc) ==
    IF hc # NULL
    THEN LET h1 == [h EXCEPT ![hc].next_hc = hd]
             r == reserve_scan(h1, al, hc, h1[hc].hcid)
         IN [heap |-> r.heap, alloc |-> r.alloc, head |-> hc]
    ELSE [heap |-> h, alloc |-> al, head |-> hd]

\* *pnext, where pnext is phc_head (loc = NULL) or the address of the
\* next_hc field of object loc
Deref(h, hd, loc) == IF loc = NULL THEN hd ELSE h[loc].next_hc

\* a lookup that leaves the found entry where it is
Promote_none(h, hd, loc, next) == [heap |-> h, head |-> hd]

\* a promotion that, for a match at the front, puts the second entry first
Promote_swaps_front(h, hd, loc, next) ==
    IF next # hd
    THEN LET h1 == IF loc = NULL THEN h
                   ELSE [h EXCEPT ![loc].next_hc = h[next].next_hc]
             hd1 == IF loc = NULL THEN h[next].next_hc ELSE hd
         IN [heap |-> [h1 EXCEPT ![next].next_hc = hd1], head |-> next]
    ELSE IF h[next].next_hc = NULL THEN [heap |-> h, head |-> hd]
    ELSE LET second == h[next].next_hc
         IN [heap |-> [h EXCEPT ![next].next_hc = h[second].next_hc,
                                ![second].next_hc = next],
             head |-> second]

\* "Bring LRU on top of list": *pnext = next->next_hc; next->next_hc =
\* *phc_head; *phc_head = next
Promote(h, hd, loc, next) ==
    IF next # hd
    THEN LET h1 == IF loc = NULL THEN h
                   ELSE [h EXCEPT ![loc].next_hc = h[next].next_hc]
             hd1 == IF loc = NULL THEN h[next].next_hc ELSE hd
         IN [heap |-> [h1 EXCEPT ![next].next_hc = hd1], head |-> next]
    ELSE [heap |-> h, head |-> hd]

RECURSIVE find_by_id_loop(_, _, _, _)
find_by_id_loop(h, hd, loc, hcid) ==
    LET next == Deref(h, hd, loc) IN
    IF next = NULL THEN [heap |-> h, head |-> hd, ret |-> NULL]
    ELSE IF h[next].hcid = hcid
         THEN LET p == Promote(h, hd, loc, next)
              IN [heap |-> p.heap, head |-> p.head, ret |-> next]
         ELSE find_by_id_loop(h, hd, next, hcid)

\* a lookup that returns the first entry when no entry has the code
find_by_id_default_head(h, hd, hcid) ==
    LET r == find_by_id_loop(h, hd, NULL, hcid)
    IN IF r.ret = NULL THEN [r EXCEPT !.ret = hd] ELSE r

picoqinq_find_reserve_header_by_id(h, hd, hcid) ==
    find_by_id_loop(h, hd, NULL, hcid)

RECURSIVE find_by_address_loop(_, _, _, _, _)
find_by_address_loop(h, hd, loc, addr, cid) ==
    LET next == Deref(h, hd, loc) IN
    IF next = NULL THEN [heap |-> h, head |-> hd, ret |-> 0]
    ELSE IF picoquic_compare_addr(h[next].addr_s, addr) = 0
            /\ Len(h[next].cid) = Len(cid)
            /\ h[next].cid = cid
         THEN LET p == Promote(h, hd, loc, next)
              IN [heap |-> p.heap, head |-> p.head, ret |-> h[next].hcid]
         ELSE find_by_address_loop(h, hd, next, addr, cid)

\* a lookup that walks the caller's head pointer itself down the list
find_by_address_moves_head(h, hd, addr, cid) ==
    LET r == find_by_address_loop(h, hd, NULL, addr, cid)
    IN IF r.ret = 0 THEN [r EXCEPT !.head = NULL] ELSE r

picoqinq_find_reserve_header_id_by_address(h, hd, addr, cid) ==
    find_by_address_loop(h, hd, NULL, addr, cid)

(* ------------------------- cursor primitives --------------------------- *)
\* A buffer is a sequence of bytes; a cursor (uint8_t*) is an offset into
\* it, 0 for the first byte; bytes_max is the offset one past the last
\* byte the callee may touch.  NULLP is the failure cursor (a null pointer).
NULLP == -1

QINQ_PROTO_RESERVE_HEADER == 1
QINQ_PROTO_RESERVE_CID == 2
PICOQUIC_CONNECTION_ID_MAX_SIZE == 20

\* the n bytes of buf that start at offset from
Bytes(buf, from, n) == SubSeq(buf, from + 1, from + n)

\* the number a sequence of bytes stands for, most significant byte first
RECURSIVE BigEndian(_)
BigEndian(s) ==
    IF s = <<>> THEN 0
    ELSE BigEndian(SubSeq(s, 1, Len(s) - 1)) * 256 + s[Len(s)]

\* the len bytes that stand for n, most significant byte first
RECURSIVE ToBytes(_, _)
ToBytes(n, len) ==
    IF len = 0 THEN <<>>
    ELSE ToBytes(n \div 256, len - 1) \o <<n % 256>>

\* length of a varint, from the two high bits of its first byte
VarintLength(b0) == 2 ^ (b0 \div 64)

\* picoquic_frames_varint_decode: NULL unless the whole varint lies before
\* bytes_max; the output is written on success only
picoquic_frames_varint_decode(buf, bytes, max) ==
    IF bytes < max /\ bytes + VarintLength(buf[bytes + 1]) <= max
    THEN LET len == VarintLength(buf[bytes + 1])
         IN [bytes |-> bytes + len,
             n |-> BigEndian(<<buf[bytes + 1] % 64>> \o Bytes(buf, bytes + 1, len - 1)),
             rd |-> bytes .. (bytes + len - 1)]
    ELSE [bytes |-> NULLP, n |-> 0, rd |-> IF bytes < max THEN {bytes} ELSE {}]

\* picoquic_frames_varlen_decode: a varint read into a size_t
picoquic_frames_varlen_decode(buf, bytes, max) ==
    picoquic_frames_varint_decode(buf, bytes, max)

\* picoquic_frames_fixed_skip: (bytes += size) <= bytes_max ? bytes : NULL
picoquic_frames_fixed_skip(bytes, max, size) ==
    IF bytes + size <= max THEN bytes + size ELSE NULLP

\* picoquic_frames_uint16_decode: two bytes, most significant first
picoquic_frames_uint16_decode(buf, bytes, max) ==
    IF bytes + 2 <= max
    THEN [bytes |-> bytes + 2, n |-> BigEndian(Bytes(buf, bytes, 2)),
          rd |-> {bytes, bytes + 1}]
    ELSE [bytes |-> NULLP, n |-> 0, rd |-> {}]

\* picoquic_frames_cid_decode: a length, then that many bytes of CID; NULL
\* when the length exceeds the CID bound or the bytes do not lie before
\* bytes_max; the CID is written on success only
picoquic_frames_cid_decode(buf, bytes, max) ==
    LET l == picoquic_frames_varlen_decode(buf, bytes, max) IN
    IF l.bytes # NULLP /\ l.n <= PICOQUIC_CONNECTION_ID_MAX_SIZE
       /\ l.bytes + l.n <= max
    THEN [bytes |-> l.bytes + l.n, cid |-> Bytes(buf, l.bytes, l.n),
          rd |-> l.rd \cup (l.bytes .. (l.bytes + l.n - 1))]
    ELSE [bytes |-> NULLP, cid |-> <<>>, rd |-> l.rd]

\* An encoder works on w = [bytes |-> cursor, buf |-> the bytes written so
\* far from offset 0]; a failed write leaves what was written before it.
\* picoquic_frames_varint_encode: 1, 2, 4 or 8 bytes by the size of n
picoquic_frames_varint_encode(w, max, n) ==
    LET len == IF n < 64 THEN 1 ELSE IF n < 16384 THEN 2
               ELSE IF n < 1073741824 THEN 4 ELSE 8
        tag == IF len = 1 THEN 0 ELSE IF len = 2 THEN 64
               ELSE IF len = 4 THEN 128 ELSE 192
        raw == ToBytes(n, len)
    IN IF w.bytes + len <= max
       THEN [bytes |-> w.bytes + len,
             buf |-> w.buf \o <<raw[1] + tag>> \o SubSeq(raw, 2, len)]
       ELSE [bytes |-> NULLP, buf |-> w.buf]

\* picoquic_frames_l_v_encode: the length as a varint, then the l bytes of v
picoquic_frames_l_v_encode(w, max, l, v) ==
    LET w1 == picoquic_frames_varint_encode(w, max, l) IN
    IF w1.bytes # NULLP /\ w1.bytes + l <= max
    THEN [bytes |-> w1.bytes + l, buf |-> w1.buf \o v]
    ELSE [bytes |-> NULLP, buf |-> w1.buf]

\* picoquic_frames_uint16_encode: two bytes, most significant first
picoquic_frames_uint16_encode(w, max, n) ==
    IF w.bytes + 2 <= max
    THEN [bytes |-> w.bytes + 2, buf |-> w.buf \o ToBytes(n, 2)]
    ELSE [bytes |-> NULLP, buf |-> w.buf]

\* picoquic_frames_cid_encode: the CID length, then the CID bytes
picoquic_frames_cid_encode(w, max, cid) ==
    picoquic_frames_l_v_encode(w, max, Len(cid), cid)

(* ------------------------------- codec --------------------------------- *)
\* a copy that clears the target when the length is neither 4 nor 16
qinq_copy_address_clears(old, address_length, buf, address, port) ==
    IF address_length = 4
    THEN [ret |-> 0, rd |-> address .. (address + 3),
          addr_s |-> [family |-> "AF_INET", addr |-> Bytes(buf, address, 4),
                      port |-> port]]
    ELSE IF address_length = 16
    THEN [ret |-> 0, rd |-> address .. (address + 15),
          addr_s |-> [family |-> "AF_INET6", addr |-> Bytes(buf, address, 16),
                      port |-> port]]
    ELSE [ret |-> -1, rd |-> {}, addr_s |-> ZeroAddr]

\* a copy that leaves the port out
qinq_copy_address_no_port(old, address_length, buf, address, port) ==
    IF address_length = 4
    THEN [ret |-> 0, rd |-> address .. (address + 3),
          addr_s |-> [family |-> "AF_INET", addr |-> Bytes(buf, address, 4),
                      port |-> 0]]
    ELSE IF address_length = 16
    THEN [ret |-> 0, rd |-> address .. (address + 15),
          addr_s |-> [family |-> "AF_INET6", addr |-> Bytes(buf, address, 16),
                      port |-> 0]]
    ELSE [ret |-> -1, rd |-> {}, addr_s |-> old]

\* a copy that accepts every length and leaves the target for the others
qinq_copy_address_any_length(old, address_length, buf, address, port) ==
    IF address_length = 4
    THEN [ret |-> 0, rd |-> address .. (address + 3),
          addr_s |-> [family |-> "AF_INET", addr |-> Bytes(buf, address, 4),
                      port |-> port]]
    ELSE IF address_length = 16
    THEN [ret |-> 0, rd |-> address .. (address + 15),
          addr_s |-> [family |-> "AF_INET6", addr |-> Bytes(buf, address, 16),
                      port |-> port]]
    ELSE [ret |-> 0, rd |-> {}, addr_s |-> old]

\* qinq_copy_address: address is the offset of the address bytes in buf
qinq_copy_address(old, address_length, buf, address, port) ==
    IF address_length = 4
    THEN [ret |-> 0, rd |-> address .. (address + 3),
          addr_s |-> [family |-> "AF_INET", addr |-> Bytes(buf, address, 4),
                      port |-> port]]
    ELSE IF address_length = 16
    THEN [ret |-> 0, rd |-> address .. (address + 15),
          addr_s |-> [family |-> "AF_INET6", addr |-> Bytes(buf, address, 16),
                      port |-> port]]
    ELSE [ret |-> -1, rd |-> {}, addr_s |-> old]

\* a literal branch that returns the cursor of the port, not the one after it
decode_literal_address_at_port(buf, bytes, max, old) ==
    LET l == picoquic_frames_varlen_decode(buf, bytes, max) IN
    IF l.bytes = NULLP THEN [bytes |-> NULLP, addr_s |-> old, rd |-> l.rd]
    ELSE
    LET address == l.bytes
        skip == picoquic_frames_fixed_skip(l.bytes, max, l.n)
    IN
    IF skip = NULLP THEN [bytes |-> NULLP, addr_s |-> old, rd |-> l.rd]
    ELSE
    LET p == picoquic_frames_uint16_decode(buf, skip, max) IN
    IF p.bytes = NULLP THEN [bytes |-> NULLP, addr_s |-> old, rd |-> l.rd \cup p.rd]
    ELSE
    LET c == qinq_copy_address(old, l.n, buf, address, p.n) IN
    [bytes |-> IF c.ret # 0 THEN NULLP ELSE skip, addr_s |-> c.addr_s,
     rd |-> l.rd \cup p.rd \cup c.rd]

\* the hcid == 0 branch of picoqinq_decode_datagram_header, from the cursor
\* that follows the hcid; gives the cursor, the address and the bytes read
decode_literal_address(buf, bytes, max, old) ==
    LET l == picoquic_frames_varlen_decode(buf, bytes, max) IN
    IF l.bytes = NULLP THEN [bytes |-> NULLP, addr_s |-> old, rd |-> l.rd]
    ELSE
    LET address == l.bytes
        skip == picoquic_frames_fixed_skip(l.bytes, max, l.n)
    IN
    IF skip = NULLP THEN [bytes |-> NULLP, addr_s |-> old, rd |-> l.rd]
    ELSE
    LET p == picoquic_frames_uint16_decode(buf, skip, max) IN
    IF p.bytes = NULLP THEN [bytes |-> NULLP, addr_s |-> old, rd |-> l.rd \cup p.rd]
    ELSE
    LET c == qinq_copy_address(old, l.n, buf, address, p.n) IN
    [bytes |-> IF c.ret # 0 THEN NULLP ELSE p.bytes, addr_s |-> c.addr_s,
     rd |-> l.rd \cup p.rd \cup c.rd]

\* a decode that resolves the code and forgets the CID reference
decode_compressed_no_cid(bytes, hcid, h, hd) ==
    LET f == picoqinq_find_reserve_header_by_id(h, hd, hcid)
    IN [bytes |-> IF f.ret = NULL THEN NULLP ELSE bytes,
        addr_s |-> IF f.ret = NULL THEN ZeroAddr ELSE f.heap[f.ret].addr_s,
        cid |-> NULL, heap |-> f.heap, head |-> f.head, hc |-> f.ret]

\* the hcid != 0 branch of picoqinq_decode_datagram_header, from the cursor
\* that follows the hcid
decode_compressed(bytes, hcid, h, hd) ==
    LET f == picoqinq_find_reserve_header_by_id(h, hd, hcid)
        st == IF f.ret = NULL THEN [stored |-> ZeroAddr, len |-> 0]
              ELSE picoquic_store_addr(f.heap[f.ret].addr_s)
    IN [bytes |-> IF f.ret = NULL \/ st.len = 0 THEN NULLP ELSE bytes,
        addr_s |-> st.stored,
        cid |-> IF f.ret = NULL \/ st.len = 0 THEN NULL ELSE f.ret,
        heap |-> f.heap, head |-> f.head, hc |-> f.ret]

\* picoqinq_decode_datagram_header on the registry (h, hd): the returned
\* cursor, the outputs *addr_s and *cid (a reference to an entry, or NULL),
\* the registry after the call, the entry looked up and the offsets read
picoqinq_decode_datagram_header(buf, bytes, max, h, hd) ==
    LET v == picoquic_frames_varint_decode(buf, bytes, max) IN
    IF v.bytes = NULLP
    THEN [bytes |-> NULLP, addr_s |-> ZeroAddr, cid |-> NULL,
          heap |-> h, head |-> hd, hc |-> NULL, rd |-> v.rd]
    ELSE IF v.n = 0
    THEN LET a == decode_literal_address(buf, v.bytes, max, ZeroAddr)
         IN [bytes |-> a.bytes, addr_s |-> a.addr_s, cid |-> NULL,
             heap |-> h, head |-> hd, hc |-> NULL, rd |-> v.rd \cup a.rd]
    ELSE LET c == decode_compressed(v.bytes, v.n, h, hd)
         IN [bytes |-> c.bytes, addr_s |-> c.addr_s, cid |-> c.cid,
             heap |-> c.heap, head |-> c.head, hc |-> c.hc, rd |-> v.rd]

\* an encoder that writes the opcode before it looks at the address family
encode_reserve_header_opcode_first(max, direction, hcid, addr, cid) ==
    LET w1 == picoquic_frames_varint_encode([bytes |-> 0, buf |-> <<>>], max,
                                            QINQ_PROTO_RESERVE_HEADER)
    IN
    IF addr.family \notin {"AF_INET", "AF_INET6"}
    THEN [bytes |-> NULLP, buf |-> w1.buf]
    ELSE
    LET address_length == IF addr.family = "AF_INET" THEN 4 ELSE 16
        w2 == IF w1.bytes = NULLP THEN w1
              ELSE picoquic_frames_varint_encode(w1, max, direction)
        w3 == IF w2.bytes = NULLP THEN w2
              ELSE picoquic_frames_varint_encode(w2, max, hcid)
        w4 == IF w3.bytes = NULLP THEN w3
              ELSE picoquic_frames_l_v_encode(w3, max, address_length, addr.addr)
        w5 == IF w4.bytes = NULLP THEN w4
              ELSE picoquic_frames_uint16_encode(w4, max, addr.port)
    IN IF w5.bytes = NULLP THEN w5 ELSE picoquic_frames_cid_encode(w5, max, cid)

\* picoqinq_encode_reserve_header into an empty buffer of max bytes
picoqinq_encode_reserve_header(max, direction, hcid, addr, cid) ==
    IF addr.family \notin {"AF_INET", "AF_INET6"}
    THEN [bytes |-> NULLP, buf |-> <<>>]
    ELSE
    LET address_length == IF addr.family = "AF_INET" THEN 4 ELSE 16
        w1 == picoquic_frames_varint_encode([bytes |-> 0, buf |-> <<>>], max,
                                            QINQ_PROTO_RESERVE_HEADER)
        w2 == IF w1.bytes = NULLP THEN w1
              ELSE picoquic_frames_varint_encode(w1, max, direction)
        w3 == IF w2.bytes = NULLP THEN w2
              ELSE picoquic_frames_varint_encode(w2, max, hcid)
        w4 == IF w3.bytes = NULLP THEN w3
              ELSE picoquic_frames_l_v_encode(w3, max, address_length, addr.addr)
        w5 == IF w4.bytes = NULLP THEN w4
              ELSE picoquic_frames_uint16_encode(w4, max, addr.port)
    IN IF w5.bytes = NULLP THEN w5 ELSE picoquic_frames_cid_encode(w5, max, cid)

\* picoqinq_decode_reserve_header; out holds the caller's *direction, *hcid,
\* *addr_s and *cid before the call, the result holds them after it
picoqinq_decode_reserve_header(buf, bytes, max, out) ==
    LET d == picoquic_frames_varint_decode(buf, bytes, max)
        o1 == IF d.bytes = NULLP THEN out ELSE [out EXCEPT !.direction = d.n]
    IN
    IF d.bytes = NULLP THEN [bytes |-> NULLP, out |-> o1, rd |-> d.rd]
    ELSE
    LET i == picoquic_frames_varint_decode(buf, d.bytes, max)
        o2 == IF i.bytes = NULLP THEN o1 ELSE [o1 EXCEPT !.hcid = i.n]
    IN
    IF i.bytes = NULLP THEN [bytes |-> NULLP, out |-> o2, rd |-> d.rd \cup i.rd]
    ELSE
    LET l == picoquic_frames_varlen_decode(buf, i.bytes, max)
        rd3 == d.rd \cup i.rd \cup l.rd
    IN
    IF l.bytes = NULLP THEN [bytes |-> NULLP, out |-> o2, rd |-> rd3]
    ELSE
    LET address == l.bytes
        skip == picoquic_frames_fixed_skip(l.bytes, max, l.n)
    IN
    IF skip = NULLP THEN [bytes |-> NULLP, out |-> o2, rd |-> rd3]
    ELSE
    LET p == picoquic_frames_uint16_decode(buf, skip, max) IN
    IF p.bytes = NULLP THEN [bytes |-> NULLP, out |-> o2, rd |-> rd3 \cup p.rd]
    ELSE
    LET c == picoquic_frames_cid_decode(buf, p.bytes, max)
        o3 == IF c.bytes = NULLP THEN o2 ELSE [o2 EXCEPT !.cid = c.cid]
    IN
    IF c.bytes = NULLP
    THEN [bytes |-> NULLP, out |-> o3, rd |-> rd3 \cup p.rd \cup c.rd]
    ELSE
    LET a == qinq_copy_address(o3.addr_s, l.n, buf, address, p.n) IN
    [bytes |-> IF a.ret # 0 THEN NULLP ELSE c.bytes,
     out |-> [o3 EXCEPT !.addr_s = a.addr_s],
     rd |-> rd3 \cup p.rd \cup c.rd \cup a.rd]

\* picoqinq_encode_reserve_cid into an empty buffer of max bytes
picoqinq_encode_reserve_cid(max, cid) ==
    LET w1 == picoquic_frames_varint_encode([bytes |-> 0, buf |-> <<>>], max,
                                            QINQ_PROTO_RESERVE_CID)
    IN IF w1.bytes = NULLP THEN w1 ELSE picoquic_frames_cid_encode(w1, max, cid)

\* a decode that takes the end of the buffer for the limit
decode_reserve_cid_no_limit(buf, bytes, max, cid) ==
    LET c == picoquic_frames_cid_decode(buf, bytes, Len(buf)) IN
    [bytes |-> c.bytes, cid |-> IF c.bytes = NULLP THEN cid ELSE c.cid,
     rd |-> c.rd]

\* picoqinq_decode_reserve_cid; cid is the caller's *cid before the call
picoqinq_decode_reserve_cid(buf, bytes, max, cid) ==
    LET c == picoquic_frames_cid_decode(buf, bytes, max) IN
    [bytes |-> c.bytes, cid |-> IF c.bytes = NULLP THEN cid ELSE c.cid,
     rd |-> c.rd]

\* history: x becomes the most recently used object
Touch(s, x) == <<x>> \o SelectSeq(s, LAMBDA y : y # x)

(* ------------------------------ actions -------------------------------- *)
Init ==
    /\ heap = [n \in Nodes |-> NoNode]
    /\ alloc = [n \in Nodes |-> "unused"]
    /\ head = NULL
    /\ last = NoCall
    /\ lastUse = <<>>
    /\ reserved = [c \in Codes |-> <<>>]

\* hc = picoqinq_create_header(hcid, addr, cid); malloc returns a new
\* object.  The caller reserves an entry before it creates the next one.
Create ==
    \E n \in Nodes, hcid \in Codes, ac \in Pairs :
        /\ alloc[n] = "unused"
        /\ \A m \in Nodes : m < n => alloc[m] # "unused"
        /\ Detached = {}
        /\ heap' = picoqinq_create_header(heap, n, hcid, ac[1], ac[2])
        /\ alloc' = [alloc EXCEPT ![n] = "live"]
        /\ last' = [op |-> "create", hcid |-> hcid, addr |-> ac[1],
                    cid |-> ac[2], ret |-> n]
        /\ UNCHANGED <<head, lastUse, reserved>>

\* picoqinq_reserve_header(hc, &head) with a freshly created entry, or
\* with the NULL of a failed picoqinq_create_header
Reserve ==
    \E hc \in Detached \cup {NULL} :
        LET r == picoqinq_reserve_header(heap, alloc, head, hc) IN
        /\ heap' = r.heap
        /\ alloc' = r.alloc
        /\ head' = r.head
        /\ last' = IF hc = NULL THEN [op |-> "reserve", hc |-> NULL]
                   ELSE [op |-> "reserve", hc |-> hc, hcid |-> heap[hc].hcid,
                         addr |-> heap[hc].addr_s, cid |-> heap[hc].cid]
        /\ lastUse' = IF hc = NULL THEN lastUse ELSE Touch(lastUse, hc)
        /\ reserved' = IF hc = NULL THEN reserved
                       ELSE [reserved EXCEPT ![heap[hc].hcid] =
                                                <<heap[hc].addr_s, heap[hc].cid>>]

\* picoqinq_find_reserve_header_by_id(&head, hcid)
FindById ==
    \E hcid \in Codes :
        LET r == picoqinq_find_reserve_header_by_id(heap, head, hcid) IN
        /\ heap' = r.heap
        /\ head' = r.head
        /\ last' = [op |-> "find_by_id", hcid |-> hcid, ret |-> r.ret]
        /\ lastUse' = IF r.ret # NULL THEN Touch(lastUse, r.ret) ELSE lastUse
        /\ UNCHANGED <<alloc, reserved>>

\* picoqinq_find_reserve_header_id_by_address(&head, addr, cid)
FindByAddress ==
    \E ac \in Pairs :
        LET addr == ac[1]
            cid == ac[2]
            r == picoqinq_find_reserve_header_id_by_address(heap, head, addr, cid)
            hits == {i \in 1..Len(Registry) :
                        /\ heap[Registry[i]].addr_s = addr
                        /\ heap[Registry[i]].cid = cid}
            found == Registry[CHOOSE i \in hits : \A j \in hits : i <= j]
        IN
        /\ heap' = r.heap
        /\ head' = r.head
        /\ last' = [op |-> "find_by_address", addr |-> addr, cid |-> cid,
                    ret |-> r.ret]
        /\ lastUse' = IF hits # {} THEN Touch(lastUse, found) ELSE lastUse
        /\ UNCHANGED <<alloc, reserved>>

\* the bytes an encoder produces for a value when the buffer is large enough
MaxBuf == 64

VarintBytes(n) ==
    picoquic_frames_varint_encode([bytes |-> 0, buf |-> <<>>], MaxBuf, n).buf

\* a Datagram Header that carries the literal address addr
LiteralHeader(alen, addr) ==
    picoquic_frames_uint16_encode(
        picoquic_frames_l_v_encode(
            picoquic_frames_varint_encode([bytes |-> 0, buf |-> <<>>], MaxBuf, 0),
            MaxBuf, alen, addr.addr),
        MaxBuf, addr.port).buf

\* Datagram Headers that carry a compression code, some of no entry
CompressedHeaders == {VarintBytes(c) : c \in (Codes \ {0}) \cup {5}}

\* well-formed literal headers, and one whose address length is 3
LiteralHeaders ==
    {LiteralHeader(4, Addr4), LiteralHeader(16, Addr6),
     LiteralHeader(3, [addr |-> <<192, 0, 2>>, port |-> 8080])}

\* the caller's addr_s and cid before a datagram decode: cleared, or still
\* holding what an earlier call left there
StaleAddr == [family |-> "AF_INET6",
              addr |-> <<254, 128, 0, 0, 0, 0, 0, 0, 0, 0, 0, 0, 0, 0, 0, 9>>,
              port |-> 9]
StalePre == [addr_s |-> StaleAddr, cid |-> 1]
DatagramPre == {[addr_s |-> ZeroAddr, cid |-> NULL], StalePre}

\* picoqinq_decode_datagram_header(buf, buf + max, &addr_s, &cid, &head);
\* the datagram is the header in.buf followed by the packet bytes in.tail
DecodeDatagram(Inputs, Pre) ==
    \E in \in Inputs, pre \in Pre :
        LET r == picoqinq_decode_datagram_header(in.buf \o in.tail, 0, in.max,
                                                 heap, head) IN
        /\ heap' = r.heap
        /\ head' = r.head
        /\ last' = [op |-> "decode_datagram_header", buf |-> in.buf,
                    tail |-> in.tail,
                    max |-> in.max, pre |-> pre, ret |-> r.bytes,
                    addr_s |-> r.addr_s, cid |-> r.cid, hc |-> r.hc,
                    rd |-> r.rd]
        /\ lastUse' = IF r.hc # NULL THEN Touch(lastUse, r.hc) ELSE lastUse
        /\ UNCHANGED <<alloc, reserved>>

\* a datagram that carries a compression code arrives
DecodeCompressed ==
    DecodeDatagram({[buf |-> b, tail |-> <<>>, max |-> Len(b)] :
                       b \in CompressedHeaders},
                   {StalePre})

Next == Create \/ Reserve \/ FindById \/ FindByAddress \/ DecodeCompressed

Spec == Init /\ [][Next]_vars

(* --------------------------- codec harness ----------------------------- *)
Cid20 == [i \in 1..PICOQUIC_CONNECTION_ID_MAX_SIZE |-> 100 + i]

\* the valid Reserve-Header requests the codec is exercised with
Requests ==
    [direction : {0, 1}, hcid : {1, 300, 70000, 1073741824},
     addr : {Addr4, Addr6}, cid : {<<>>, Cid12, Cid20}]

\* requests whose address family is neither IPv4 nor IPv6
BadRequests ==
    [direction : {0}, hcid : {1},
     addr : {ZeroAddr, [family |-> "AF_UNIX", addr |-> <<>>, port |-> 0]},
     cid : {Cid12}]

ReserveHeaderMessage(q) ==
    picoqinq_encode_reserve_header(MaxBuf, q.direction, q.hcid, q.addr, q.cid).buf

\* a message without its opcode
Body(m) == SubSeq(m, 2, Len(m))

ReserveCidMessage(cid) == picoqinq_encode_reserve_cid(MaxBuf, cid).buf

\* a Reserve-Header body whose address length is 5
BadLengthBody ==
    picoquic_frames_cid_encode(
        picoquic_frames_uint16_encode(
            picoquic_frames_l_v_encode(
                picoquic_frames_varint_encode(
                    picoquic_frames_varint_encode([bytes |-> 0, buf |-> <<>>],
                                                  MaxBuf, 1),
                    MaxBuf, 2),
                MaxBuf, 5, <<192, 0, 2, 1, 7>>),
            MaxBuf, 8080),
        MaxBuf, Cid12).buf

\* address lengths that are neither 4 nor 16
BadLengths == {0, 3, 5, 17}

\* n bytes of address
AddrBytes(n) == [i \in 1..n |-> 10 + i]

\* a Reserve-Header body that announces n bytes of address and carries
\* them, a port and a CID
BadLengthBodyOf(n) ==
    picoquic_frames_cid_encode(
        picoquic_frames_uint16_encode(
            picoquic_frames_l_v_encode(
                picoquic_frames_varint_encode(
                    picoquic_frames_varint_encode([bytes |-> 0, buf |-> <<>>],
                                                  MaxBuf, 1),
                    MaxBuf, 300),
                MaxBuf, n, AddrBytes(n)),
            MaxBuf, 8080),
        MaxBuf, Cid12).buf

ReserveHeaderBodies ==
    {Body(ReserveHeaderMessage(q)) : q \in Requests} \cup {BadLengthBody}
        \cup {BadLengthBodyOf(n) : n \in BadLengths}

\* the caller's outputs before a reserve-header decode
ReserveHeaderPre ==
    {[direction |-> 0, hcid |-> 0, addr_s |-> ZeroAddr, cid |-> <<>>],
     [direction |-> 7, hcid |-> 9, addr_s |-> StaleAddr, cid |-> <<9>>]}

\* The codec harness makes one call from each initial state.
\* registries the codec harness starts from: empty, or after two reserves
RegEmpty ==
    [heap |-> [n \in Nodes |-> NoNode], alloc |-> [n \in Nodes |-> "unused"],
     head |-> NULL]

RegWith(reg, n, hcid, addr, cid) ==
    picoqinq_reserve_header(picoqinq_create_header(reg.heap, n, hcid, addr, cid),
                            [reg.alloc EXCEPT ![n] = "live"], reg.head, n)

RegTwo == RegWith(RegWith(RegEmpty, 1, 1, Addr4, Cid12), 2, 2, ZeroAddr, Cid1)

CodecInit ==
    \E reg \in {RegEmpty, RegTwo} :
        /\ heap = reg.heap
        /\ alloc = reg.alloc
        /\ head = reg.head
        /\ last = NoCall
        /\ lastUse = List(reg.heap, reg.head)
        /\ reserved = [c \in Codes |->
                         IF \E n \in Nodes : reg.alloc[n] = "live" /\ reg.heap[n].hcid = c
                         THEN LET n == CHOOSE n \in Nodes :
                                          reg.alloc[n] = "live" /\ reg.heap[n].hcid = c
                              IN <<reg.heap[n].addr_s, reg.heap[n].cid>>
                         ELSE <<>>]

\* picoqinq_encode_reserve_header(buf, buf + max, direction, hcid, addr, cid)
EncodeReserveHeader ==
    /\ last.op = "none"
    /\ \E q \in Requests \cup BadRequests, max \in 0..MaxBuf :
        LET w == picoqinq_encode_reserve_header(max, q.direction, q.hcid,
                                                q.addr, q.cid) IN
        /\ \/ max <= Len(ReserveHeaderMessage(q)) + 1
           \/ (q \in BadRequests /\ max = MaxBuf)
        /\ last' = [op |-> "encode_reserve_header", req |-> q, max |-> max,
                    ret |-> w.bytes, buf |-> w.buf]
        /\ UNCHANGED <<heap, alloc, head, lastUse, reserved>>

\* picoqinq_decode_reserve_header(buf, buf + max, &direction, &hcid, &addr_s, &cid)
DecodeReserveHeader ==
    /\ last.op = "none"
    /\ \E buf \in ReserveHeaderBodies, pre \in ReserveHeaderPre :
        \E max \in 0..Len(buf) :
            LET r == picoqinq_decode_reserve_header(buf, 0, max, pre) IN
            /\ last' = [op |-> "decode_reserve_header", buf |-> buf,
                        max |-> max, pre |-> pre, ret |-> r.bytes,
                        out |-> r.out, rd |-> r.rd]
            /\ UNCHANGED <<heap, alloc, head, lastUse, reserved>>

\* picoqinq_encode_reserve_cid(buf, buf + max, cid)
EncodeReserveCid ==
    /\ last.op = "none"
    /\ \E cid \in {<<>>, Cid1, Cid12, Cid20}, max \in 0..MaxBuf :
        LET w == picoqinq_encode_reserve_cid(max, cid) IN
        /\ max <= Len(ReserveCidMessage(cid)) + 1
        /\ last' = [op |-> "encode_reserve_cid", cid |-> cid, max |-> max,
                    ret |-> w.bytes, buf |-> w.buf]
        /\ UNCHANGED <<heap, alloc, head, lastUse, reserved>>

\* picoqinq_decode_reserve_cid(buf, buf + max, &cid)
DecodeReserveCid ==
    /\ last.op = "none"
    /\ \E cid \in {<<>>, Cid1, Cid12, Cid20}, pre \in {<<>>, <<9>>} :
        LET buf == Body(ReserveCidMessage(cid)) IN
        \E max \in 0..Len(buf) :
            LET r == picoqinq_decode_reserve_cid(buf, 0, max, pre) IN
            /\ last' = [op |-> "decode_reserve_cid", buf |-> buf, max |-> max,
                        pre |-> pre, ret |-> r.bytes, cid |-> r.cid,
                        rd |-> r.rd]
            /\ UNCHANGED <<heap, alloc, head, lastUse, reserved>>

\* a CID whose id_len is one more than the size of the id array
Cid21 == [i \in 1..(PICOQUIC_CONNECTION_ID_MAX_SIZE + 1) |-> 200 + i]

\* what hc->cid holds after memcpy(hc->cid.id, cid->id, cid->id_len) and
\* hc->cid.id_len = cid->id_len: the given CID; when id_len exceeds the
\* size of id the copy runs past both arrays, and the bytes after the
\* array are whatever the build makes of it
CopiedCids(cid) ==
    IF Len(cid) <= PICOQUIC_CONNECTION_ID_MAX_SIZE THEN {cid}
    ELSE {cid, SubSeq(cid, 1, PICOQUIC_CONNECTION_ID_MAX_SIZE) \o <<0>>}

\* hc = picoqinq_create_header(hcid, addr, cid): malloc fails (n = NULL) or
\* returns a new object
CreateHeader ==
    /\ last.op = "none"
    /\ \E hcid \in {0, 1, 300}, addr \in {Addr4, Addr6, ZeroAddr},
          cid \in {<<>>, Cid12, Cid20, Cid21}, n \in Nodes \cup {NULL} :
        /\ n # NULL =>
               /\ alloc[n] = "unused"
               /\ \A m \in Nodes : m < n => alloc[m] # "unused"
        /\ \E stored \in CopiedCids(cid) :
               heap' = IF n = NULL THEN heap
                       ELSE picoqinq_create_header(heap, n, hcid, addr, stored)
        /\ alloc' = IF n = NULL THEN alloc ELSE [alloc EXCEPT ![n] = "live"]
        /\ last' = [op |-> "create", hcid |-> hcid, addr |-> addr,
                    cid |-> cid, ret |-> n]
        /\ UNCHANGED <<head, lastUse, reserved>>

\* a datagram arrives, whole or cut short
DatagramHeaders ==
    CompressedHeaders \cup {VarintBytes(300)} \cup LiteralHeaders
        \cup {LiteralHeader(n, [addr |-> AddrBytes(n), port |-> 8080]) :
                  n \in BadLengths}

\* the first bytes of the packet that follows a Datagram Header
PacketBytes == <<64, 7, 9>>

DecodeAnyDatagram ==
    /\ last.op = "none"
    /\ DecodeDatagram({in \in [buf : DatagramHeaders,
                                tail : {<<>>, PacketBytes}, max : 0..MaxBuf] :
                          in.max <= Len(in.buf) + Len(in.tail)},
                      DatagramPre)

CodecNext ==
    \/ EncodeReserveHeader
    \/ DecodeReserveHeader
    \/ EncodeReserveCid
    \/ DecodeReserveCid
    \/ DecodeAnyDatagram
    \/ CreateHeader

CodecSpec == CodecInit /\ [][CodecNext]_vars

(* ------------------------------ claims --------------------------------- *)
\* the entries of the registry, front to back, that carry code c
WithCode(c) == {n \in Range(Registry) : heap[n].hcid = c}

\* C1: after every call the registry holds at most one entry per code, and
\* that entry's address and CID are those of the last reserve call made
\* with that code.
C1_OneEntryPerCode ==
    \A c \in Codes :
        /\ Cardinality(WithCode(c)) <= 1
        /\ Len(Registry) = Cardinality(Range(Registry))
        /\ \A n \in WithCode(c) : <<heap[n].addr_s, heap[n].cid>> = reserved[c]

\* a reserve has just replaced an older entry of the same code by one with
\* another address or CID, next to an entry of another code
C1_Witness ==
    /\ last.op = "reserve"
    /\ \E n \in Nodes : alloc[n] = "freed"
    /\ Len(Registry) = 2
    /\ Registry[1] = last.hc
    /\ heap[Registry[2]].hcid # last.hcid

\* C2: the registry order is the order of last use: front to back, the
\* entries appear by decreasing moment of their last insertion or
\* successful lookup (lastUse keeps the objects in that order).
C2_MostRecentlyUsedOrder ==
    Registry = SelectSeq(lastUse, LAMBDA n : alloc[n] = "live")

\* three entries inserted as objects 1, 2, 3 (order 3, 2, 1), then the code
\* of object 1 found: the order is 1, 3, 2
C2_Witness ==
    /\ last.op = "find_by_id"
    /\ last.ret = 1
    /\ Registry = <<1, 3, 2>>

\* C3: picoqinq_find_reserve_header_by_id called with code 0 matches no
\* entry, because no entry with code 0 is ever stored in the registry.
C3_ZeroNeverMatches ==
    (last.op = "find_by_id" /\ last.hcid = 0) =>
        /\ last.ret = NULL
        /\ \A n \in Range(Registry) : heap[n].hcid # 0

\* the code a Datagram Header carries
HeaderCode(buf) == picoquic_frames_varint_decode(buf, 0, Len(buf)).n

\* the step is a decode of a whole Datagram Header that carries code c
DecodesCode(c) ==
    /\ last'.op = "decode_datagram_header"
    /\ last'.max = Len(last'.buf)
    /\ HeaderCode(last'.buf) = c

IsInet(a) == a.family \in {"AF_INET", "AF_INET6"}

C5_UnknownCodeFails ==
    [][\A c \in {HeaderCode(b) : b \in CompressedHeaders} :
          (c # 0 /\ WithCode(c) = {} /\ DecodesCode(c)) =>
              /\ last'.ret = NULLP
              /\ last'.cid = NULL
              /\ heap' = heap
              /\ head' = head]_vars

\* code 5 was looked up in a registry of two entries, and the decode
\* failed, resetting the caller's CID reference
C5_Witness ==
    /\ last.op = "decode_datagram_header"
    /\ HeaderCode(last.buf) = 5
    /\ last.ret = NULLP
    /\ last.pre.cid # NULL
    /\ last.cid = NULL
    /\ Len(Registry) = 2

\* the entries that carry the address and CID given to a lookup
Matching(addr, cid) ==
    {i \in 1..Len(Registry) :
        heap[Registry[i]].addr_s = addr /\ heap[Registry[i]].cid = cid}

\* C7: a lookup that misses returns nothing (NULL, respectively code 0) and
\* leaves the registry's entries and their order as they were.
C7_MissLeavesRegistry ==
    [][/\ (last'.op = "find_by_id" /\ WithCode(last'.hcid) = {}) =>
              (last'.ret = NULL /\ heap' = heap /\ head' = head)
       /\ (last'.op = "find_by_address" /\ Matching(last'.addr, last'.cid) = {}) =>
              (last'.ret = 0 /\ heap' = heap /\ head' = head)]_vars

\* a lookup by address and CID has missed in a registry of two entries,
\* one of which has the address with a CID of another length
C7_Witness ==
    /\ last.op = "find_by_address"
    /\ last.ret = 0
    /\ Len(Registry) = 2
    /\ Matching(last.addr, last.cid) = {}
    /\ \E n \in Range(Registry) :
           heap[n].addr_s = last.addr /\ heap[n].cid # last.cid

\* C8: picoqinq_find_reserve_header_id_by_address returns a non-zero code
\* exactly when the registry holds an entry with the given address and a CID
\* of the same length and bytes, and then the code of the front-most match.
C8_FindByAddressExact ==
    [][last'.op = "find_by_address" =>
          LET hits == Matching(last'.addr, last'.cid) IN
          /\ (last'.ret # 0) <=> (hits # {})
          /\ hits # {} =>
                 last'.ret = heap[Registry[CHOOSE i \in hits :
                                              \A j \in hits : i <= j]].hcid]_vars

Decodes == {"decode_datagram_header", "decode_reserve_header", "decode_reserve_cid"}

\* the caller's outputs after the last decode are those before it
OutputsUntouched ==
    IF last.op = "decode_datagram_header"
    THEN last.addr_s = last.pre.addr_s /\ last.cid = last.pre.cid
    ELSE IF last.op = "decode_reserve_header" THEN last.out = last.pre
    ELSE last.cid = last.pre

Decoded(q) ==
    [direction |-> q.direction, hcid |-> q.hcid, addr_s |-> q.addr, cid |-> q.cid]

StaleOut == [direction |-> 7, hcid |-> 9, addr_s |-> StaleAddr, cid |-> <<9>>]

\* C9: for every valid Reserve-Header request encoded into a large enough
\* buffer, decoding the bytes that follow the opcode yields the same
\* direction, hcid, address, port and CID and a cursor at the end of the
\* message; likewise the CID of every Reserve-CID message.
C9_RoundTrip ==
    /\ (last.op = "encode_reserve_header" /\ last.ret # NULLP) =>
          LET body == Body(last.buf)
              r == picoqinq_decode_reserve_header(body, 0, Len(body), StaleOut)
          IN /\ last.buf[1] = QINQ_PROTO_RESERVE_HEADER
             /\ r.bytes = Len(body)
             /\ r.out = Decoded(last.req)
    /\ (last.op = "encode_reserve_cid" /\ last.ret # NULLP) =>
          LET body == Body(last.buf)
              r == picoqinq_decode_reserve_cid(body, 0, Len(body), <<9>>)
          IN /\ last.buf[1] = QINQ_PROTO_RESERVE_CID
             /\ r.bytes = Len(body)
             /\ r.cid = last.cid
    /\ \A q \in Requests :
          (/\ last.op = "decode_reserve_header"
           /\ last.buf = Body(ReserveHeaderMessage(q))
           /\ last.max = Len(last.buf)) =>
              (last.ret = Len(last.buf) /\ last.out = Decoded(q))

\* an IPv6 request with a four-byte hcid and a CID of the maximum length
\* has been encoded
C9_Witness ==
    /\ last.op = "encode_reserve_header"
    /\ last.ret = Len(last.buf)
    /\ last.req.addr = Addr6
    /\ last.req.hcid = 70000
    /\ last.req.cid = Cid20

\* C10: a decode of an encoded message cut at a byte boundary before its
\* end fails, and no decode reads a byte at or beyond the limit.
C10_TruncationFails ==
    last.op \in Decodes =>
        /\ last.max < Len(last.buf) => last.ret = NULLP
        /\ \A i \in last.rd : i < last.max

\* a Reserve-Header body cut inside its CID has been decoded, after the
\* address and the port were read
C10_Witness ==
    /\ last.op = "decode_reserve_header"
    /\ last.max = Len(last.buf) - 1
    /\ last.ret = NULLP
    /\ last.out.hcid = 300
    /\ last.max > 40
    /\ \A i \in 0..3 : i \in last.rd

\* a well-formed literal Datagram Header: code 0, an address length of 4 or
\* 16, that many address bytes and a 2-byte port
WellFormedLiteral(buf) ==
    /\ Len(buf) >= 2
    /\ buf[1] = 0
    /\ buf[2] \in {4, 16}
    /\ Len(buf) = buf[2] + 4

\* the address a well-formed literal Datagram Header carries
LiteralAddress(buf) ==
    [family |-> IF buf[2] = 4 THEN "AF_INET" ELSE "AF_INET6",
     addr |-> SubSeq(buf, 3, buf[2] + 2),
     port |-> buf[Len(buf) - 1] * 256 + buf[Len(buf)]]

\* the input 00 04 C0 00 02 01 1F 90
ExampleHeader == <<0, 4, 192, 0, 2, 1, 31, 144>>

BodyAddressLength(buf) ==
    LET d == picoquic_frames_varint_decode(buf, 0, Len(buf))
        i == picoquic_frames_varint_decode(buf, d.bytes, Len(buf))
    IN picoquic_frames_varlen_decode(buf, i.bytes, Len(buf)).n

\* C12: a decode of a literal Datagram Header (code 0) or of a
\* Reserve-Header body whose address length is neither 4 nor 16 fails,
\* also when the announced address bytes, the port and the CID all lie
\* before the limit.
C12_BadLengthRejected ==
    /\ (/\ last.op = "decode_datagram_header"
        /\ Len(last.buf) >= 2
        /\ last.buf[1] = 0
        /\ last.buf[2] \notin {4, 16}) => last.ret = NULLP
    /\ (/\ last.op = "decode_reserve_header"
        /\ BodyAddressLength(last.buf) \notin {4, 16}) => last.ret = NULLP

\* a whole Reserve-Header body that announces and carries 17 bytes of
\* address has been refused, after its CID was read
C12_Witness ==
    /\ last.op = "decode_reserve_header"
    /\ last.buf = BadLengthBodyOf(17)
    /\ last.max = Len(last.buf)
    /\ last.ret = NULLP
    /\ last.out.hcid = 300
    /\ last.out.cid = Cid12
    /\ last.pre.cid = <<9>>

\* the fields of a Reserve-Header message for request q, in order: opcode,
\* direction, hcid, address length and bytes, port, CID length and bytes
ReserveHeaderFields(q) ==
    VarintBytes(QINQ_PROTO_RESERVE_HEADER) \o VarintBytes(q.direction)
        \o VarintBytes(q.hcid)
        \o <<Len(q.addr.addr)>> \o q.addr.addr
        \o <<q.addr.port \div 256, q.addr.port % 256>>
        \o <<Len(q.cid)>> \o q.cid

\* C13: picoqinq_encode_reserve_header returns the failure cursor and
\* writes nothing when the address family is neither IPv4 nor IPv6; for an
\* IPv4 or IPv6 address it fails exactly when the fields do not all fit
\* before the limit, and otherwise writes exactly opcode, direction, hcid,
\* address, port and CID in that order; no call writes at or beyond the
\* limit.
C13_EncodeReserveHeaderFailures ==
    last.op = "encode_reserve_header" =>
        LET q == last.req
            full == ReserveHeaderFields(q)
        IN
        /\ Len(last.buf) <= last.max
        /\ ~IsInet(q.addr) => (last.ret = NULLP /\ last.buf = <<>>)
        /\ IsInet(q.addr) =>
              /\ (last.ret = NULLP) <=> (last.max < Len(full))
              /\ last.ret # NULLP => (last.buf = full /\ last.ret = Len(full))
              /\ last.buf = SubSeq(full, 1, Len(last.buf))

\* a request with an address of no family has been refused with nothing
\* written, in a buffer with room for the whole message
C13_Witness ==
    /\ last.op = "encode_reserve_header"
    /\ last.req.addr = ZeroAddr
    /\ last.max = MaxBuf
    /\ last.ret = NULLP
    /\ last.buf = <<>>

\* C14: picoqinq_create_header changes no registry; for a CID longer than
\* the maximum CID length it fails and creates no entry; otherwise the
\* entry it returns is detached and holds the given code, address and CID.
C14_CreateChecksCidLength ==
    [][last'.op = "create" =>
          /\ head' = head
          /\ List(heap', head') = Registry
          /\ \A n \in Range(Registry) : heap'[n] = heap[n]
          /\ IF Len(last'.cid) > PICOQUIC_CONNECTION_ID_MAX_SIZE
             THEN last'.ret = NULL /\ heap' = heap /\ alloc' = alloc
             ELSE last'.ret # NULL =>
                      /\ alloc[last'.ret] = "unused"
                      /\ alloc'[last'.ret] = "live"
                      /\ last'.ret \notin Range(List(heap', head'))
                      /\ heap'[last'.ret] =
                             [hcid |-> last'.hcid, addr_s |-> last'.addr,
                              cid |-> last'.cid, next_hc |-> NULL]]_vars

\* the code, address and CID of entry n in heap h
Fields(h, n) == [hcid |-> h[n].hcid, addr_s |-> h[n].addr_s, cid |-> h[n].cid]

Lookups == {"find_by_id", "find_by_address", "decode_datagram_header"}

\* C15: a reserve of an entry removes exactly the entries that carry the
\* entry's code and keeps every other entry, with its code, address, CID
\* and place relative to the others, behind the new entry; a lookup (by
\* code, by address and CID, or through a datagram decode) removes and
\* releases no entry and changes no entry's code, address or CID.
C15_EvictionOnlyBySameCode ==
    [][/\ (last'.op = "reserve" /\ last'.hc # NULL) =>
              /\ List(heap', head') =
                     <<last'.hc>> \o
                     SelectSeq(Registry, LAMBDA n : heap[n].hcid # last'.hcid)
              /\ \A n \in Range(List(heap', head')) :
                     Fields(heap', n) = Fields(heap, n)
              /\ \A n \in Nodes :
                     alloc'[n] # alloc[n] =>
                         (n \in Range(Registry) /\ heap[n].hcid = last'.hcid)
       /\ last'.op \in Lookups =>
              /\ Range(List(heap', head')) = Range(Registry)
              /\ Len(List(heap', head')) = Len(Registry)
              /\ alloc' = alloc
              /\ \A n \in Nodes : Fields(heap', n) = Fields(heap, n)]_vars

\* a reserve has evicted the front entry, which had the new entry's code,
\* and kept the entry of another code that was behind it
C15_Witness ==
    /\ last.op = "reserve"
    /\ last.hc = 3
    /\ Registry = <<3, 1>>
    /\ alloc[2] = "freed"
    /\ heap[1].hcid # last.hcid

\* C16: in every state reached by reserves of freshly created entries and
\* lookups, the list from the head is finite and acyclic (it ends in NULL
\* and holds no object twice), every entry reserved and not evicted is in
\* it exactly once, every evicted entry has been freed exactly once, only
\* evicted entries have been freed, and no freed entry is in the list.
C16_ListWellFormed ==
    /\ Len(Registry) = Cardinality(Range(Registry))
    /\ Len(Registry) <= MaxNodes
    /\ Registry # <<>> => heap[Registry[Len(Registry)]].next_hc = NULL
    /\ \A n \in Range(Registry) : alloc[n] = "live"
    /\ \A n \in Range(lastUse) :
           /\ alloc[n] \in {"live", "freed"}
           /\ alloc[n] = "live" <=> n \in Range(Registry)
    /\ \A n \in Nodes :
           /\ alloc[n] # "freed twice"
           /\ alloc[n] = "freed" => n \in Range(lastUse)

\* after three reserves, the last of which evicted the second entry, a
\* lookup by address and CID has brought the first entry to the front
C16_Witness ==
    /\ last.op = "find_by_address"
    /\ last.ret # 0
    /\ Registry = <<1, 3>>
    /\ alloc[2] = "freed"
    /\ lastUse = <<1, 3, 2>>

\* C17: a lookup by code or by address and CID whose match is the front
\* entry leaves the list as it is and returns that entry, respectively its
\* code; hence a successful lookup made a second time in a row leaves the
\* registry as the first call left it and returns what the first returned.
C17_PromotionIdempotent ==
    [][/\ (/\ last'.op = "find_by_id"
           /\ head # NULL
           /\ heap[head].hcid = last'.hcid) =>
              (heap' = heap /\ head' = head /\ last'.ret = head)
       /\ (/\ last'.op = "find_by_address"
           /\ head # NULL
           /\ heap[head].addr_s = last'.addr
           /\ heap[head].cid = last'.cid) =>
              (heap' = heap /\ head' = head /\ last'.ret = heap[head].hcid)
       /\ (/\ last.op = "find_by_id"
           /\ last.ret # NULL
           /\ last'.op = "find_by_id"
           /\ last'.hcid = last.hcid) =>
              (heap' = heap /\ head' = head /\ last'.ret = last.ret)
       /\ (/\ last.op = "find_by_address"
           /\ Matching(last.addr, last.cid) # {}
           /\ last'.op = "find_by_address"
           /\ last'.addr = last.addr
           /\ last'.cid = last.cid) =>
              (heap' = heap /\ head' = head /\ last'.ret = last.ret)]_vars

\* a lookup by address and CID has matched the front entry of a registry
\* of three entries, which are still in the order of their insertion
C17_Witness ==
    /\ last.op = "find_by_address"
    /\ last.ret # 0
    /\ last.ret = heap[head].hcid
    /\ heap[head].addr_s = last.addr
    /\ heap[head].cid = last.cid
    /\ Registry = <<3, 2, 1>>
    /\ lastUse = <<3, 2, 1>>

====
